---- MODULE Spec2Model ----
(***************************************************************************)
(* WifiViewer.cpp: enumeration of the saved Wi-Fi profiles of every WLAN   *)
(* interface and recovery of each profile's key, first from the profile    *)
(* XML (extractKeyMaterial), then from the output of netsh                 *)
(* (try_netsh_parse).                                                      *)
(*                                                                         *)
(* Text is modelled as it is stored: a std::string is a sequence of bytes  *)
(* (0..255), a std::wstring a sequence of UTF-16 code units.  Positions    *)
(* are 0-based as in the source; npos is -1.                               *)
(***************************************************************************)
EXTENDS Integers, Sequences, FiniteSets, TLC

VARIABLES pc, hClient, exitCode, nIf, i, nProf, j,
          getRet, pProfileXml, password,
          text, pipe, found, linesRead,
          out, hist, lists

vars == <<pc, hClient, exitCode, nIf, i, nProf, j, getRet, pProfileXml,
          password, text, pipe, found, linesRead, out, hist, lists>>

(***************************************************************************)
(* Bounds of the model.                                                    *)
(***************************************************************************)
MaxAdapters == 2
MaxProfiles == 2
MaxXmlTok == 5
MaxLines == 2

(***************************************************************************)
(* Library functions the program calls.                                    *)
(***************************************************************************)
npos == -1

SetMin(S) == CHOOSE x \in S : \A y \in S : x <= y
SetMax(S) == CHOOSE x \in S : \A y \in S : x >= y

\* std::basic_string::find(sub, from): the first position >= from at which
\* sub occurs, npos when there is none.
find(s, sub, from) ==
    LET hits == {p \in from .. (Len(s) - Len(sub)) :
                    \A k \in 1 .. Len(sub) : s[p + k] = sub[k]}
    IN  IF hits = {} THEN npos ELSE SetMin(hits)

\* std::basic_string::substr(pos, n): at most n elements from pos
\* (pos <= size in every call of the program).
substr(s, pos, n) ==
    LET m == IF n < Len(s) - pos THEN n ELSE Len(s) - pos
    IN  SubSeq(s, pos + 1, pos + m)

\* isspace in the "C" locale (the program never calls setlocale).
isspace(c) == c \in {9, 10, 11, 12, 13, 32}

\* iswspace: the code units Windows classifies as C1_SPACE.
iswspace(c) ==
    \/ c \in {9, 10, 11, 12, 13, 32, 133, 160, 5760, 8232, 8233, 8239, 8287, 12288}
    \/ (c >= 8192 /\ c <= 8202)

\* std::tolower / ::towlower in the "C" locale: only A-Z change.
tolower(c) == IF c >= 65 /\ c <= 90 THEN c + 32 ELSE c
towlower(c) == IF c >= 65 /\ c <= 90 THEN c + 32 ELSE c

\* MultiByteToWideChar(CP_UTF8, 0, ...): one well-formed sequence at a time;
\* a byte that starts no well-formed sequence becomes U+FFFD.
IsCont(s, k) == k <= Len(s) /\ s[k] >= 128 /\ s[k] <= 191

RECURSIVE Utf8Decode(_, _)
Utf8Decode(s, k) ==
    IF k > Len(s) THEN <<>>
    ELSE LET b == s[k] IN
         IF b < 128 THEN <<b>> \o Utf8Decode(s, k + 1)
         ELSE IF b >= 194 /\ b <= 223 /\ IsCont(s, k + 1)
              THEN <<(b - 192) * 64 + (s[k + 1] - 128)>> \o Utf8Decode(s, k + 2)
         ELSE IF b >= 224 /\ b <= 239 /\ IsCont(s, k + 1) /\ IsCont(s, k + 2)
                 /\ (b - 224) * 4096 + (s[k + 1] - 128) * 64 >= 2048
              THEN <<(b - 224) * 4096 + (s[k + 1] - 128) * 64 + (s[k + 2] - 128)>>
                   \o Utf8Decode(s, k + 3)
         ELSE IF b >= 240 /\ b <= 244 /\ IsCont(s, k + 1) /\ IsCont(s, k + 2)
                 /\ IsCont(s, k + 3)
              THEN LET cp == (b - 240) * 262144 + (s[k + 1] - 128) * 4096
                             + (s[k + 2] - 128) * 64 + (s[k + 3] - 128) - 65536
                   IN  <<55296 + (cp \div 1024), 56320 + (cp % 1024)>>
                       \o Utf8Decode(s, k + 4)
         ELSE <<65533>> \o Utf8Decode(s, k + 1)

MultiByteToWideChar(s) == Utf8Decode(s, 1)

(***************************************************************************)
(* trim_w, tolower_w, extractKeyMaterial.                                  *)
(***************************************************************************)
trim_w(s) ==
    LET front == {k \in 0 .. Len(s) - 1 : ~iswspace(s[k + 1])}
        a == IF front = {} THEN Len(s) ELSE SetMin(front)
        back == {k \in a + 1 .. Len(s) : ~iswspace(s[k])}
        b == IF back = {} THEN a ELSE SetMax(back)
    IN  substr(s, a, b - a)

tolower_w(s) == [k \in 1 .. Len(s) |-> towlower(s[k])]

\* L"<keymaterial>" and L"</keymaterial>"
tag1 == <<60, 107, 101, 121, 109, 97, 116, 101, 114, 105, 97, 108, 62>>
tag2 == <<60, 47, 107, 101, 121, 109, 97, 116, 101, 114, 105, 97, 108, 62>>

extractKeyMaterial_Folded(xml) ==
    LET low == tolower_w(xml)
        p1 == find(low, tag1, 0)
        q1 == p1 + Len(tag1)
        p2 == find(low, tag2, q1)
    IN  IF p1 = npos THEN <<>>
        ELSE IF p2 = npos THEN <<>>
        ELSE trim_w(substr(low, q1, p2 - q1))

extractKeyMaterial_NoTrim(xml) ==
    LET low == tolower_w(xml)
        p1 == find(low, tag1, 0)
        q1 == p1 + Len(tag1)
        p2 == find(low, tag2, q1)
    IN  IF p1 = npos THEN <<>>
        ELSE IF p2 = npos THEN <<>>
        ELSE substr(xml, q1, p2 - q1)

\* The closing marker is searched from the start of the text; when it lies
\* before the opening one, p2 - p1 wraps (size_t) and substr runs to the end.
extractKeyMaterial_FromStart(xml) ==
    LET low == tolower_w(xml)
        p1 == find(low, tag1, 0)
        q1 == p1 + Len(tag1)
        p2 == find(low, tag2, 0)
    IN  IF p1 = npos THEN <<>>
        ELSE IF p2 = npos THEN <<>>
        ELSE trim_w(substr(xml, q1, IF p2 >= q1 THEN p2 - q1 ELSE Len(xml)))

extractKeyMaterial(xml) ==
    LET low == tolower_w(xml)
        p1 == find(low, tag1, 0)
        q1 == p1 + Len(tag1)
        p2 == find(low, tag2, q1)
    IN  IF p1 = npos THEN <<>>
        ELSE IF p2 = npos THEN <<>>
        ELSE trim_w(substr(xml, q1, p2 - q1))

(***************************************************************************)
(* try_netsh_parse: the loop over the lines of the netsh output.           *)
(***************************************************************************)
BufSize == 512

\* "key content" and the UTF-8 bytes of the Japanese label
primaryLabel == <<107, 101, 121, 32, 99, 111, 110, 116, 101, 110, 116>>
secondaryLabel == <<227, 130, 173, 227, 131, 188, 32, 227, 130, 179, 227, 131, 179,
                    227, 131, 134, 227, 131, 179, 227, 131, 132>>

\* fgets(buf, sizeof(buf), pipe): the bytes up to and including the first
\* newline, at most BufSize - 1 of them.
fgets(p) ==
    LET nl == find(p, <<10>>, 0)
        upto == IF nl = npos THEN Len(p) ELSE nl + 1
        n == IF upto < BufSize - 1 THEN upto ELSE BufSize - 1
    IN  SubSeq(p, 1, n)

\* the lower-cased copy of a line
lowered(line) == [k \in 1 .. Len(line) |-> tolower(line[k])]

\* the trim of val by isspace
trimmed(val) ==
    LET front == {k \in 0 .. Len(val) - 1 : ~isspace(val[k + 1])}
        a == IF front = {} THEN Len(val) ELSE SetMin(front)
        back == {k \in a + 1 .. Len(val) : ~isspace(val[k])}
        b == IF back = {} THEN a ELSE SetMax(back)
    IN  substr(val, a, b - a)

\* the position of the label in a line: the English one, else the Japanese
labelPos(line) ==
    LET low == lowered(line)
        pos == find(low, primaryLabel, 0)
    IN  IF pos = npos THEN find(low, secondaryLabel, 0) ELSE pos

\* The body of the loop for one line: whether the loop breaks, and found.
ProcessLine_BreakOnLabel(line, fnd) ==
    LET pos == labelPos(line)
        col == find(line, <<58>>, pos)
        t == trimmed(substr(line, col + 1, Len(line)))
        wout == MultiByteToWideChar(t)
    IN  IF pos = npos THEN [brk |-> FALSE, found |-> fnd]
        ELSE IF col # npos /\ col + 1 < Len(line)
             THEN [brk |-> TRUE, found |-> IF Len(wout) > 0 THEN trim_w(wout) ELSE fnd]
             ELSE [brk |-> TRUE, found |-> fnd]

ProcessLine_PrimaryOnly(line, fnd) ==
    LET pos == find(lowered(line), primaryLabel, 0)
        col == find(line, <<58>>, pos)
        t == trimmed(substr(line, col + 1, Len(line)))
        wout == MultiByteToWideChar(t)
    IN  IF pos = npos THEN [brk |-> FALSE, found |-> fnd]
        ELSE IF col # npos /\ col + 1 < Len(line)
             THEN [brk |-> TRUE, found |-> IF Len(wout) > 0 THEN trim_w(wout) ELSE fnd]
             ELSE [brk |-> FALSE, found |-> fnd]

ProcessLine_ColonFromStart(line, fnd) ==
    LET pos == labelPos(line)
        col == find(line, <<58>>, 0)
        t == trimmed(substr(line, col + 1, Len(line)))
        wout == MultiByteToWideChar(t)
    IN  IF pos = npos THEN [brk |-> FALSE, found |-> fnd]
        ELSE IF col # npos /\ col + 1 < Len(line)
             THEN [brk |-> TRUE, found |-> IF Len(wout) > 0 THEN trim_w(wout) ELSE fnd]
             ELSE [brk |-> FALSE, found |-> fnd]

ProcessLine(line, fnd) ==
    LET pos == labelPos(line)
        col == find(line, <<58>>, pos)
        t == trimmed(substr(line, col + 1, Len(line)))
        wout == MultiByteToWideChar(t)
    IN  IF pos = npos THEN [brk |-> FALSE, found |-> fnd]
        ELSE IF col # npos /\ col + 1 < Len(line)
             THEN [brk |-> TRUE, found |-> IF Len(wout) > 0 THEN trim_w(wout) ELSE fnd]
             ELSE [brk |-> FALSE, found |-> fnd]

\* An absent pointer (NULL) is the empty tuple, a present one <<contents>>.
NULL == <<>>

Event(e, v) == [ev |-> e, i |-> i, j |-> j, val |-> v]

\* _popen and, when it fails, the return of L"".
Popen(retpc) ==
    /\ pc = "popen"
    /\ IF text = NULL
       THEN /\ password' = <<>>
            /\ hist' = hist \o <<Event("_popen", <<>>), Event("return", <<>>)>>
            /\ linesRead' = 0
            /\ pc' = retpc
            /\ UNCHANGED <<pipe, found>>
       ELSE /\ pipe' = text
            /\ found' = <<>>
            /\ linesRead' = 0
            /\ hist' = Append(hist, Event("_popen", <<>>))
            /\ pc' = "fgets"
            /\ UNCHANGED password
    /\ UNCHANGED <<hClient, exitCode, nIf, i, nProf, j, getRet, pProfileXml, text,
                   out, lists>>

\* One turn of the while loop; at the end of the output, or on break,
\* _pclose and the return of found.
ReadLine(retpc) ==
    /\ pc = "fgets"
    /\ IF pipe[1] = <<>>
       THEN /\ pipe' = NULL
            /\ password' = found
            /\ hist' = Append(hist, Event("return", found))
            /\ pc' = retpc
            /\ UNCHANGED <<found, linesRead>>
       ELSE LET line == fgets(pipe[1])
                rest == SubSeq(pipe[1], Len(line) + 1, Len(pipe[1]))
                r == ProcessLine(line, found)
            IN  /\ found' = r.found
                /\ linesRead' = linesRead + 1
                /\ IF r.brk
                   THEN /\ pipe' = NULL
                        /\ password' = r.found
                        /\ hist' = Append(hist, Event("return", r.found))
                        /\ pc' = retpc
                   ELSE /\ pipe' = <<rest>>
                        /\ pc' = "fgets"
                        /\ UNCHANGED <<password, hist>>
    /\ UNCHANGED <<hClient, exitCode, nIf, i, nProf, j, getRet, pProfileXml, text,
                   out, lists>>

(***************************************************************************)
(* The inputs the environment supplies.                                    *)
(***************************************************************************)
RECURSIVE Concat(_)
Concat(ss) == IF ss = <<>> THEN <<>> ELSE Head(ss) \o Concat(Tail(ss))

SeqsUpTo(S, n) == UNION {[1 .. m -> S] : m \in 0 .. n}

\* "<keyMaterial>", "</KEYMATERIAL>", " ", "a", "B"
XmlTokens ==
    { <<60, 107, 101, 121, 77, 97, 116, 101, 114, 105, 97, 108, 62>>,
      <<60, 47, 75, 69, 89, 77, 65, 84, 69, 82, 73, 65, 76, 62>>,
      <<32>>, <<97>>, <<66>> }

XmlDocs == {Concat(ts) : ts \in SeqsUpTo(XmlTokens, MaxXmlTok)}

\* A line of netsh output with a label: filler, the label, the rest, a
\* newline; and two lines without one.
\* ": ", "Key Content", the Japanese label
LinePre == { <<>>, <<58, 32>> }
LineLabel == { <<75, 101, 121, 32, 67, 111, 110, 116, 101, 110, 116>>,
               secondaryLabel }
\* "", " :", " : aB", ":c:D" + U+3000 + " ", ":Key Content:e"
LineRest == { <<>>, <<32, 58>>, <<32, 58, 32, 97, 66>>,
              <<58, 99, 58, 68, 227, 128, 128, 32>>,
              <<58, 75, 101, 121, 32, 67, 111, 110, 116, 101, 110, 116, 58, 101>> }
\* "aB\n", ": c\n"
PlainLines == { <<97, 66, 10>>, <<58, 32, 99, 10>> }

NetshLines ==
    {p \o l \o r \o <<10>> : p \in LinePre, l \in LineLabel, r \in LineRest}
    \cup PlainLines

\* The texts of at most MaxLines lines, the last one with or without its
\* newline.
NetshTexts ==
    LET whole == {Concat(ls) : ls \in SeqsUpTo(NetshLines, MaxLines)}
    IN  whole \cup {SubSeq(t, 1, Len(t) - 1) : t \in whole \ {<<>>}}

\* The profile XML and the netsh output a profile of the run may have.
\* "<keyMaterial> aB </KEYMATERIAL>", "<keyMaterial> </KEYMATERIAL>", "a"
WmainDocs ==
    { <<60, 107, 101, 121, 77, 97, 116, 101, 114, 105, 97, 108, 62, 32, 97, 66, 32,
        60, 47, 75, 69, 89, 77, 65, 84, 69, 82, 73, 65, 76, 62>>,
      <<60, 107, 101, 121, 77, 97, 116, 101, 114, 105, 97, 108, 62, 32,
        60, 47, 75, 69, 89, 77, 65, 84, 69, 82, 73, 65, 76, 62>>,
      <<97>> }

\* "Key Content\nKey Content : cD\n", "aB\n"
WmainTexts ==
    { <<75, 101, 121, 32, 67, 111, 110, 116, 101, 110, 116, 10,
        75, 101, 121, 32, 67, 111, 110, 116, 101, 110, 116, 32, 58, 32, 99, 68, 10>>,
      <<97, 66, 10>> }

(***************************************************************************)
(* wmain.                                                                  *)
(***************************************************************************)
ERROR_SUCCESS == 0
ERROR_ACCESS_DENIED == 5

Init ==
    /\ pc = "open"
    /\ hClient = "NULL"
    /\ exitCode = -1
    /\ nIf = 0 /\ i = 0 /\ nProf = 0 /\ j = 0
    /\ getRet = ERROR_SUCCESS
    /\ pProfileXml = NULL
    /\ password = <<>>
    /\ text = NULL
    /\ pipe = NULL
    /\ found = <<>>
    /\ linesRead = 0
    /\ out = <<>>
    /\ hist = <<>>
    /\ lists = <<>>

\* WlanOpenHandle; on failure return 1.
OpenHandle ==
    /\ pc = "open"
    /\ \E ok \in BOOLEAN :
          IF ok
          THEN hClient' = "open" /\ pc' = "enum" /\ UNCHANGED exitCode
          ELSE exitCode' = 1 /\ pc' = "done" /\ UNCHANGED hClient
    /\ UNCHANGED <<nIf, i, nProf, j, getRet, pProfileXml, password, text, pipe,
                   found, linesRead, out, hist, lists>>

\* WlanEnumInterfaces; on failure close the handle and return 2.
EnumInterfaces ==
    /\ pc = "enum"
    /\ \E n \in -1 .. MaxAdapters :
          IF n >= 0
          THEN nIf' = n /\ i' = 0 /\ pc' = "ifloop" /\ UNCHANGED <<hClient, exitCode>>
          ELSE hClient' = "closed" /\ exitCode' = 2 /\ pc' = "done"
               /\ UNCHANGED <<nIf, i>>
    /\ UNCHANGED <<nProf, j, getRet, pProfileXml, password, text, pipe,
                   found, linesRead, out, hist, lists>>

\* The head of the interface loop with WlanGetProfileList: -1 is a failure
\* (continue), n >= 0 a list of n profiles.  The profiles of all the
\* interfaces together are at most MaxProfiles.
GetProfileList_Break ==
    /\ pc = "ifloop"
    /\ i < nIf
    /\ \E n \in -1 .. (MaxProfiles - Len(out)) :
          /\ lists' = Append(lists, n)
          /\ IF n >= 0
             THEN nProf' = n /\ j' = 0 /\ pc' = "profloop" /\ UNCHANGED i
             ELSE i' = nIf /\ pc' = "ifloop" /\ UNCHANGED <<nProf, j>>
    /\ UNCHANGED <<hClient, exitCode, nIf, getRet, pProfileXml, password, text,
                   pipe, found, linesRead, out, hist>>

GetProfileList ==
    /\ pc = "ifloop"
    /\ i < nIf
    /\ \E n \in -1 .. (MaxProfiles - Len(out)) :
          /\ lists' = Append(lists, n)
          /\ IF n >= 0
             THEN nProf' = n /\ j' = 0 /\ pc' = "profloop" /\ UNCHANGED i
             ELSE i' = i + 1 /\ pc' = "ifloop" /\ UNCHANGED <<nProf, j>>
    /\ UNCHANGED <<hClient, exitCode, nIf, getRet, pProfileXml, password, text,
                   pipe, found, linesRead, out, hist>>

\* The interface loop ends; free the list, close the handle, return 0.
Cleanup ==
    /\ pc = "ifloop"
    /\ i >= nIf
    /\ hClient' = "closed"
    /\ exitCode' = 0
    /\ pc' = "done"
    /\ UNCHANGED <<nIf, i, nProf, j, getRet, pProfileXml, password, text, pipe,
                   found, linesRead, out, hist, lists>>

\* The head of the profile loop with WlanGetProfile.
GetProfile ==
    /\ pc = "profloop"
    /\ j < nProf
    /\ \E d \in {NULL} \cup {<<x>> : x \in WmainDocs} :
          /\ pProfileXml' = d
          /\ \E r \in (IF d = NULL THEN {ERROR_SUCCESS, ERROR_ACCESS_DENIED}
                                   ELSE {ERROR_SUCCESS}) : getRet' = r
    /\ password' = <<>>
    /\ hist' = Append(hist, Event("WlanGetProfile", <<>>))
    /\ pc' = "structured"
    /\ UNCHANGED <<hClient, exitCode, nIf, i, nProf, j, text, pipe, found,
                   linesRead, out, lists>>

\* The profile loop ends; free the list and go to the next interface.
NextInterface ==
    /\ pc = "profloop"
    /\ j >= nProf
    /\ i' = i + 1
    /\ pc' = "ifloop"
    /\ UNCHANGED <<hClient, exitCode, nIf, nProf, j, getRet, pProfileXml, password,
                   text, pipe, found, linesRead, out, hist, lists>>

\* if (ret == ERROR_SUCCESS && pProfileXml != NULL) password = extractKeyMaterial(xml)
Structured ==
    /\ pc = "structured"
    /\ IF getRet = ERROR_SUCCESS /\ pProfileXml # NULL
       THEN /\ password' = extractKeyMaterial(pProfileXml[1])
            /\ hist' = Append(hist, Event("extractKeyMaterial",
                                          extractKeyMaterial(pProfileXml[1])))
       ELSE UNCHANGED <<password, hist>>
    /\ pc' = "fallback"
    /\ UNCHANGED <<hClient, exitCode, nIf, i, nProf, j, getRet, pProfileXml, text,
                   pipe, found, linesRead, out, lists>>

\* if (password.empty()) password = try_netsh_parse(profileName): the call;
\* text is what netsh prints for the profile, NULL when no pipe opens.
Fallback_Always ==
    /\ pc = "fallback"
    /\ \E t \in {NULL} \cup {<<x>> : x \in WmainTexts} : text' = t
    /\ hist' = Append(hist, Event("try_netsh_parse", <<>>))
    /\ pc' = "popen"
    /\ UNCHANGED <<hClient, exitCode, nIf, i, nProf, j, getRet, pProfileXml,
                   password, pipe, found, linesRead, out, lists>>

Fallback_Never ==
    /\ pc = "fallback"
    /\ pc' = "report"
    /\ UNCHANGED <<hClient, exitCode, nIf, i, nProf, j, getRet, pProfileXml,
                   password, text, pipe, found, linesRead, out, hist, lists>>

Fallback ==
    /\ pc = "fallback"
    /\ IF password = <<>>
       THEN /\ \E t \in {NULL} \cup {<<x>> : x \in WmainTexts} : text' = t
            /\ hist' = Append(hist, Event("try_netsh_parse", <<>>))
            /\ pc' = "popen"
       ELSE /\ pc' = "report"
            /\ UNCHANGED <<text, hist>>
    /\ UNCHANGED <<hClient, exitCode, nIf, i, nProf, j, getRet, pProfileXml,
                   password, pipe, found, linesRead, out, lists>>

\* The SSID and PASS lines of the profile, then ++j.
Report_Retry ==
    /\ pc = "report"
    /\ out' = Append(out, [iface |-> i, profile |-> j, secret |-> password])
    /\ hist' = Append(hist, Event("report", password))
    /\ j' = IF password = <<>> /\ Len(out) < 1 THEN j ELSE j + 1
    /\ pc' = "profloop"
    /\ UNCHANGED <<hClient, exitCode, nIf, i, nProf, getRet, pProfileXml, password,
                   text, pipe, found, linesRead, lists>>

Report ==
    /\ pc = "report"
    /\ out' = Append(out, [iface |-> i, profile |-> j, secret |-> password])
    /\ hist' = Append(hist, Event("report", password))
    /\ j' = j + 1
    /\ pc' = "profloop"
    /\ UNCHANGED <<hClient, exitCode, nIf, i, nProf, getRet, pProfileXml, password,
                   text, pipe, found, linesRead, lists>>

Next ==
    \/ OpenHandle
    \/ EnumInterfaces
    \/ GetProfileList
    \/ Cleanup
    \/ GetProfile
    \/ NextInterface
    \/ Structured
    \/ Fallback
    \/ Popen("report")
    \/ ReadLine("report")
    \/ Report

Spec == Init /\ [][Next]_vars

\* The program is sequential and every call it makes returns: weak fairness
\* of every step.  For the three steps that run an extractor WF_vars(A) is
\* written out as []<>~ENABLED <<A>>_vars \/ []<><<A>>_vars; such a step is
\* enabled, and changes pc or linesRead, exactly at its own value of pc.
Light ==
    \/ OpenHandle
    \/ EnumInterfaces
    \/ GetProfileList
    \/ Cleanup
    \/ GetProfile
    \/ NextInterface
    \/ Fallback
    \/ Report

Heavy ==
    \/ Structured
    \/ Popen("report")
    \/ ReadLine("report")

FairSpec ==
    /\ Spec
    /\ WF_vars(Light)
    /\ ([]<>(pc \notin {"structured", "popen", "fgets"}) \/ []<><<Heavy>>_vars)

(***************************************************************************)
(* The two extractors on their own: one call on an input of the bounded    *)
(* sets.                                                                   *)
(***************************************************************************)
ExtractInit ==
    /\ hClient = "NULL"
    /\ exitCode = -1
    /\ nIf = 0 /\ i = 0 /\ nProf = 0 /\ j = 0
    /\ getRet = ERROR_SUCCESS
    /\ password = <<>>
    /\ pipe = NULL
    /\ found = <<>>
    /\ linesRead = 0
    /\ out = <<>>
    /\ hist = <<>>
    /\ lists = <<>>
    /\ \/ /\ pc = "extract"
          /\ pProfileXml \in {<<x>> : x \in XmlDocs}
          /\ text = NULL
       \/ /\ pc = "popen"
          /\ pProfileXml = NULL
          /\ text \in {NULL} \cup {<<x>> : x \in NetshTexts}

\* password = extractKeyMaterial(xml)
ExtractCall ==
    /\ pc = "extract"
    /\ password' = extractKeyMaterial(pProfileXml[1])
    /\ pc' = "returned"
    /\ UNCHANGED <<hClient, exitCode, nIf, i, nProf, j, getRet, pProfileXml, text,
                   pipe, found, linesRead, out, hist, lists>>

ExtractNext ==
    \/ ExtractCall
    \/ Popen("returned")
    \/ ReadLine("returned")

ExtractSpec == ExtractInit /\ [][ExtractNext]_vars

(***************************************************************************)
(* Notions the properties are stated with.                                 *)
(***************************************************************************)
AllSpace(s) == \A k \in 1 .. Len(s) : iswspace(s[k])

\* r is s without its leading and trailing whitespace
IsTrimOf(r, s) ==
    \E a \in 0 .. Len(s) : \E b \in a .. Len(s) :
        /\ r = SubSeq(s, a + 1, b)
        /\ AllSpace(SubSeq(s, 1, a))
        /\ AllSpace(SubSeq(s, b + 1, Len(s)))
        /\ (r = <<>> \/ (~iswspace(r[1]) /\ ~iswspace(r[Len(r)])))

\* the positions at which a marker occurs in x in any casing
Marks(x, marker) ==
    {p \in 0 .. Len(x) - Len(marker) :
        \A k \in 1 .. Len(marker) : towlower(x[p + k]) = marker[k]}

\* the end of the first opening marker, and the closing markers from there on
OpenEnd(x) == SetMin(Marks(x, tag1)) + Len(tag1)
ClosesAfter(x) == {c \in Marks(x, tag2) : c >= OpenEnd(x)}
HasPair(x) == Marks(x, tag1) # {} /\ ClosesAfter(x) # {}
Between(x) == SubSeq(x, OpenEnd(x) + 1, SetMin(ClosesAfter(x)))
HasKey(x) == HasPair(x) /\ ~AllSpace(Between(x))

\* the lines of a netsh output, as the loop reads them
RECURSIVE LinesOf(_)
LinesOf(p) ==
    IF p = <<>> THEN <<>>
    ELSE LET l == fgets(p) IN <<l>> \o LinesOf(SubSeq(p, Len(l) + 1, Len(p)))

\* the positions of a label in a line, in any casing
Occ(line, lab) ==
    {p \in 0 .. Len(line) - Len(lab) :
        \A k \in 1 .. Len(lab) : tolower(line[p + k]) = lab[k]}
HasPrimary(line) == Occ(line, primaryLabel) # {}
HasSecondary(line) == Occ(line, secondaryLabel) # {}
HasLabel(line) == HasPrimary(line) \/ HasSecondary(line)
LabelStart(line) ==
    IF HasPrimary(line) THEN SetMin(Occ(line, primaryLabel))
    ELSE SetMin(Occ(line, secondaryLabel))
\* the colons at or after the label
Colons(line) == {c \in LabelStart(line) .. Len(line) - 1 : line[c + 1] = 58}
\* a line with a label, a colon at or after it, and something after the colon
Usable(line) ==
    HasLabel(line) /\ Colons(line) # {} /\ SetMin(Colons(line)) + 1 < Len(line)
AfterColon(line) == SubSeq(line, SetMin(Colons(line)) + 2, Len(line))
IsValueOf(r, line) == IsTrimOf(r, MultiByteToWideChar(AfterColon(line)))

NetshReturned == pc = "returned" /\ text # NULL
XmlReturned == pc = "returned" /\ pProfileXml # NULL

(***************************************************************************)
(* The extractors.                                                         *)
(***************************************************************************)
\* C4: when the document holds an opening marker and a closing marker after
\* it, in any casing, extractKeyMaterial returns the text between the first
\* opening marker and the first closing marker after it, trimmed, in its
\* original casing.
C4_KeyIsTrimmedOriginalText ==
    XmlReturned =>
        LET x == pProfileXml[1]
        IN  HasPair(x) => IsTrimOf(password, Between(x))

\* a key with an upper-case letter, cut out of a longer text with whitespace
C4_Witness ==
    /\ XmlReturned
    /\ HasPair(pProfileXml[1])
    /\ Len(password) >= 2
    /\ Len(password) < Len(Between(pProfileXml[1]))
    /\ \E k \in 1 .. Len(password) : password[k] = 66

\* C5: without an opening marker, or without a closing marker after the end
\* of the first opening marker, extractKeyMaterial returns the empty string.
C5_NoPairNoKey ==
    XmlReturned =>
        LET x == pProfileXml[1]
        IN  (Marks(x, tag1) = {} \/ ClosesAfter(x) = {}) => password = <<>>

\* both markers present, the closing one only before the opening one, and
\* text after the opening one
C5_Witness ==
    /\ XmlReturned
    /\ LET x == pProfileXml[1]
       IN  /\ Marks(x, tag1) # {}
           /\ Marks(x, tag2) # {}
           /\ ClosesAfter(x) = {}
           /\ OpenEnd(x) < Len(x)
           /\ x[Len(x)] = 66
    /\ password = <<>>

\* C9: a call of either extractor returns the empty string or a string that
\* neither starts nor ends with whitespace.
C9_ResultEmptyOrTrimmed ==
    pc = "returned" =>
        \/ password = <<>>
        \/ (~iswspace(password[1]) /\ ~iswspace(password[Len(password)]))

\* netsh gave "c:D" followed by U+3000 and a space: "c:D" is returned
C9_Witness ==
    /\ NetshReturned
    /\ linesRead >= 1
    /\ password = <<99, 58, 68>>

C8_PrimaryValueTrimmed ==
    NetshReturned =>
        LET L == LinesOf(text[1])
            U == {k \in 1 .. Len(L) : Usable(L[k])}
        IN  (U # {} /\ HasPrimary(L[SetMin(U)])) =>
                LET line == L[SetMin(U)]
                    pos == SetMin(Occ(line, primaryLabel))
                    col == SetMin({c \in pos .. Len(line) - 1 : line[c + 1] = 58})
                IN  IsTrimOf(password,
                             MultiByteToWideChar(SubSeq(line, col + 2, Len(line))))

\* ": Key Content:c:D" + U+3000 + " ": the colon before the label is passed
\* over, the colon and the casing of the value are kept
C8_Witness ==
    /\ NetshReturned
    /\ linesRead = 1
    /\ LET line == LinesOf(text[1])[1]
       IN  /\ HasPrimary(line)
           /\ line[1] = 58
           /\ Usable(line)
    /\ password = <<99, 58, 68>>

\* C8 as stated, for the first line that holds the primary label and a
\* colon after it: that line gives the result.
C8_Original ==
    NetshReturned =>
        LET L == LinesOf(text[1])
            Cols(line) ==
                {c \in SetMin(Occ(line, primaryLabel)) .. Len(line) - 1 :
                    line[c + 1] = 58}
            P == {k \in 1 .. Len(L) : HasPrimary(L[k]) /\ Cols(L[k]) # {}}
        IN  P # {} =>
                LET line == L[SetMin(P)]
                IN  IsTrimOf(password,
                             MultiByteToWideChar(
                                 SubSeq(line, SetMin(Cols(line)) + 2, Len(line))))

(***************************************************************************)
(* wmain: the two paths of a profile, and the run.                         *)
(***************************************************************************)
\* the places in hist of the events named e of profile b of interface a
Events(a, b, e) ==
    {n \in 1 .. Len(hist) : hist[n].i = a /\ hist[n].j = b /\ hist[n].ev = e}
EventsOf(a, b) == {n \in 1 .. Len(hist) : hist[n].i = a /\ hist[n].j = b}
NoFallback(a, b) ==
    /\ Events(a, b, "try_netsh_parse") = {}
    /\ Events(a, b, "_popen") = {}
    /\ Events(a, b, "return") = {}

\* the profile whose record was written last is still the one the
\* descriptor variables are about
JustReported == pc = "profloop" /\ j > 0
LastRecord == out[Len(out)]
DescriptorPresent == getRet = ERROR_SUCCESS /\ pProfileXml # NULL

\* C1: when the descriptor is present and holds a key, the reported secret is
\* that key, the next step after the extraction is the report, and neither
\* try_netsh_parse nor _popen ever runs for the profile.
C1_StructuredKeyIsReportedWithoutFallback ==
    /\ (JustReported /\ DescriptorPresent /\ HasKey(pProfileXml[1])) =>
          /\ LastRecord.iface = i /\ LastRecord.profile = j - 1
          /\ IsTrimOf(LastRecord.secret, Between(pProfileXml[1]))
          /\ NoFallback(i, j - 1)
    /\ \A n \in 1 .. Len(hist) :
          (hist[n].ev = "extractKeyMaterial" /\ hist[n].val # <<>>) =>
              /\ NoFallback(hist[n].i, hist[n].j)
              /\ n < Len(hist) =>
                    /\ hist[n + 1].ev = "report"
                    /\ hist[n + 1].i = hist[n].i /\ hist[n + 1].j = hist[n].j
                    /\ hist[n + 1].val = hist[n].val
              /\ \A r \in 1 .. Len(out) :
                    (out[r].iface = hist[n].i /\ out[r].profile = hist[n].j) =>
                        out[r].secret = hist[n].val

\* a second profile reported with the key of its descriptor
C1_Witness ==
    /\ JustReported
    /\ DescriptorPresent
    /\ HasKey(pProfileXml[1])
    /\ Len(out) = 2
    /\ LastRecord.secret = <<97, 66>>

\* C2: try_netsh_parse is called exactly when the descriptor is absent or
\* holds no key; then the secret is what try_netsh_parse returned, and the
\* profile is unavailable exactly when that is empty too.  With the
\* descriptor and the netsh output both absent the profile is unavailable
\* and no line was read.
C2_FallbackExactlyWhenNoKey ==
    JustReported =>
        LET nothing == ~DescriptorPresent \/ ~HasKey(pProfileXml[1])
            calls == Events(i, j - 1, "try_netsh_parse")
            rets == Events(i, j - 1, "return")
        IN  /\ LastRecord.iface = i /\ LastRecord.profile = j - 1
            /\ (calls # {}) <=> nothing
            /\ nothing =>
                  /\ Cardinality(calls) = 1 /\ Cardinality(rets) = 1
                  /\ \A n \in rets : LastRecord.secret = hist[n].val
            /\ (LastRecord.secret = <<>>) <=>
                  (nothing /\ \A n \in rets : hist[n].val = <<>>)
            /\ (~DescriptorPresent /\ text = NULL) =>
                  /\ LastRecord.secret = <<>>
                  /\ linesRead = 0
                  /\ Events(i, j - 1, "extractKeyMaterial") = {}

\* descriptor and netsh output both absent: unavailable
C2_Witness ==
    /\ JustReported
    /\ ~DescriptorPresent
    /\ text = NULL
    /\ Events(i, j - 1, "_popen") # {}
    /\ LastRecord.secret = <<>>

\* the profile the loop body is working on
InProgress(a, b) ==
    a = i /\ b = j /\ pc \in {"structured", "fallback", "popen", "fgets", "report"}

\* C3: for every profile WlanGetProfile runs once, _popen at most once and
\* only after WlanGetProfile, the profile is reported once, nothing happens
\* for it after its report, and only the profile in progress is unreported.
C3_OneAttemptPerPathThenResolved ==
    \A n \in 1 .. Len(hist) :
        LET a == hist[n].i
            b == hist[n].j
            gets == Events(a, b, "WlanGetProfile")
            pops == Events(a, b, "_popen")
            reps == Events(a, b, "report")
        IN  /\ Cardinality(gets) = 1
            /\ Cardinality(Events(a, b, "extractKeyMaterial")) <= 1
            /\ Cardinality(Events(a, b, "try_netsh_parse")) <= 1
            /\ Cardinality(pops) <= 1
            /\ \A g \in gets : \A m \in EventsOf(a, b) : g <= m
            /\ Cardinality(reps) <= 1
            /\ \A r \in reps : \A m \in EventsOf(a, b) : m <= r
            /\ (reps = {}) <=> InProgress(a, b)
            /\ Cardinality({r \in 1 .. Len(out) :
                               out[r].iface = a /\ out[r].profile = b})
                  = Cardinality(reps)

\* a finished run with one profile resolved by each path
C3_Witness ==
    /\ pc = "done"
    /\ Len(out) = 2
    /\ \E n \in 1 .. Len(hist) : hist[n].ev = "_popen"
    /\ \E r \in 1 .. Len(out) : NoFallback(out[r].iface, out[r].profile)

\* the profiles of the lists obtained so far, in enumeration order
RECURSIVE Enumeration(_)
Enumeration(ls) ==
    IF ls = <<>> THEN <<>>
    ELSE LET a == Len(ls) - 1
             n == ls[Len(ls)]
         IN  Enumeration(SubSeq(ls, 1, a))
             \o (IF n < 0 THEN <<>> ELSE [b \in 1 .. n |-> <<a, b - 1>>])

Reported == [r \in 1 .. Len(out) |-> <<out[r].iface, out[r].profile>>]

RunOrder ==
    /\ Len(Reported) <= Len(Enumeration(lists))
    /\ Reported = SubSeq(Enumeration(lists), 1, Len(Reported))
    /\ pc = "done" =>
          /\ exitCode \in {0, 1, 2}
          /\ exitCode # 0 => (lists = <<>> /\ out = <<>>)
          /\ exitCode = 0 =>
                /\ Len(lists) = nIf
                /\ Reported = Enumeration(lists)
                /\ hClient = "closed"

====
